---- MODULE Spec2Model ----
(***************************************************************************)
(* Model of src/lib.rs: Vault::new (the construction of the secret store    *)
(* from a key list, by one awaited fetch per key) and                       *)
(* VaultStorage::get_required (the lookup).                                 *)
(*                                                                          *)
(* The external collaborators (azure_identity::create_credential,           *)
(* SecretClient::new, SecretClient::get) are the environment: each call     *)
(* ends in one of the outcomes its Result type allows.  requests and        *)
(* responses record the calls made to SecretClient::get and their           *)
(* outcomes, in order.                                                      *)
(***************************************************************************)
EXTENDS Integers, Sequences, FiniteSets, TLC

\* Longest key list explored.
MaxLen == 3

\* Secret names a caller may pass or look up.
Keys == {"db-host", "db-user", "db-port"}

\* Secret values the vault may answer with.
Values == {"myhost", "myuser"}

\* Failures SecretClient::get may end in.
FetchErrors == {"network", "denied"}

VARIABLES
    db_keys,      \* Vault::new argument: the key list
    pc,           \* position of the Vault::new future
    credential,   \* outcome of create_credential: "none", "ok", "failed"
    client,       \* outcome of SecretClient::new: "none", "ok", "failed"
    i,            \* number of keys keys_iter has yielded
    secrets,      \* the local HashMap of Vault::new
    requests,     \* keys passed to client.get, in call order
    responses,    \* outcomes of the completed client.get calls, in order
    result,       \* what Vault::new returned: Pending, Ok(Vault) or Err
    lookup_key,   \* key of the latest get_required call (NoKey: none yet)
    lookup_result,\* its result
    lookups       \* every <<key, result>> get_required has produced

vars == <<db_keys, pc, credential, client, i, secrets, requests, responses,
          result, lookup_key, lookup_result, lookups>>

----------------------------------------------------------------------------
\* Result<T> values.

Pending == [tag |-> "Pending"]

Ok(v) == [tag |-> "Ok", value |-> v]

\* An anyhow error: the message (a sequence of text fragments, so that a
\* formatted argument stays visible) and the error it wraps.
Err(message, source) == [tag |-> "Err", message |-> message, source |-> source]

NoSource == "none"

NoKey == "<none>"

\* The keys of Keys an error's own message contains.
Mentioned(e) == {k \in Keys : \E j \in 1..Len(e.message) : e.message[j] = k}

\* .context(..) texts of Vault::new and get_secret.
CredentialContext == <<"Failed to create credentials">>

ClientContext == <<"Failed to create a SecretClient instance">>

FetchContext == <<"Unable to retrieve value">>

\* anyhow!("Required key '{}' not found", key)
MissingKeyMessage(key) == <<"Required key '", key, "' not found">>

----------------------------------------------------------------------------
\* HashMap<String, String>: a function whose domain is the set of its keys.

EmptyMap == << >>

\* HashMap::insert with the first-write-wins slip (entry().or_insert()).
insert_keep_first(m, k, v) ==
    [x \in DOMAIN m \cup {k} |-> IF x \in DOMAIN m THEN m[x] ELSE v]

\* HashMap::insert: the value of an existing key is overwritten.
insert(m, k, v) ==
    [x \in DOMAIN m \cup {k} |-> IF x = k THEN v ELSE m[x]]

\* HashMap::remove, as a map.
remove(m, k) == [x \in DOMAIN m \ {k} |-> m[x]]

\* Vault { secrets }
Vault(m) == [secrets |-> m]

\* get_required with unwrap_or_default() in place of ok_or_else(..).
get_required_or_default(self, key) ==
    IF key \in DOMAIN self.secrets
    THEN Ok(self.secrets[key])
    ELSE Ok("")

\* get_required returning the looked-up key in place of its value.
get_required_echo(self, key) ==
    IF key \in DOMAIN self.secrets
    THEN Ok(key)
    ELSE Err(MissingKeyMessage(key), NoSource)

\* VaultStorage::get_required
get_required(self, key) ==
    IF key \in DOMAIN self.secrets
    THEN Ok(self.secrets[key])
    ELSE Err(MissingKeyMessage(key), NoSource)

----------------------------------------------------------------------------
\* Key lists of length 0..MaxLen, duplicates allowed.
KeyLists == UNION {[1..n -> Keys] : n \in 0..MaxLen}

Init ==
    /\ db_keys \in KeyLists
    /\ pc = "start"
    /\ credential = "none"
    /\ client = "none"
    /\ i = 0
    /\ secrets = EmptyMap
    /\ requests = << >>
    /\ responses = << >>
    /\ result = Pending
    /\ lookup_key = NoKey
    /\ lookup_result = Pending
    /\ lookups = {}

\* let mut secrets = HashMap::new();
\* let credential = create_credential().context("Failed to create credentials")?;
CreateCredential ==
    /\ pc = "start"
    /\ \E ok \in BOOLEAN :
          IF ok
          THEN /\ credential' = "ok"
               /\ pc' = "client"
               /\ UNCHANGED result
          ELSE /\ credential' = "failed"
               /\ pc' = "done"
               /\ result' = Err(CredentialContext, "credential")
    /\ UNCHANGED <<db_keys, client, i, secrets, requests, responses,
                   lookup_key, lookup_result, lookups>>

\* SecretClient::new whose failure is reported under the credential context.
NewClient_same_context ==
    /\ pc = "client"
    /\ \E ok \in BOOLEAN :
          IF ok
          THEN /\ client' = "ok"
               /\ pc' = "loop"
               /\ UNCHANGED result
          ELSE /\ client' = "failed"
               /\ pc' = "done"
               /\ result' = Err(CredentialContext, "client")
    /\ UNCHANGED <<db_keys, credential, i, secrets, requests, responses,
                   lookup_key, lookup_result, lookups>>

\* let client = SecretClient::new(url, credential)
\*     .context("Failed to create a SecretClient instance")?;
NewClient ==
    /\ pc = "client"
    /\ \E ok \in BOOLEAN :
          IF ok
          THEN /\ client' = "ok"
               /\ pc' = "loop"
               /\ UNCHANGED result
          ELSE /\ client' = "failed"
               /\ pc' = "done"
               /\ result' = Err(ClientContext, "client")
    /\ UNCHANGED <<db_keys, credential, i, secrets, requests, responses,
                   lookup_key, lookup_result, lookups>>

\* for key in keys_iter { .. get_secret(&client, key.clone()) ..
\*   -> client.get(key): the request is issued and the future suspends.
IssueFetch ==
    /\ pc = "loop"
    /\ i < Len(db_keys)
    /\ i' = i + 1
    /\ requests' = Append(requests, db_keys[i + 1])
    /\ pc' = "await"
    /\ UNCHANGED <<db_keys, credential, client, secrets, responses, result,
                   lookup_key, lookup_result, lookups>>

\* The fetch loop with skip-and-continue in place of `?`.
FetchComplete_skip ==
    /\ pc = "await"
    /\ \E r \in {Ok(v) : v \in Values} \cup {Err(FetchContext, e) : e \in FetchErrors} :
          /\ responses' = Append(responses, r)
          /\ pc' = "loop"
          /\ secrets' = IF r.tag = "Ok"
                        THEN insert(secrets, db_keys[i], r.value)
                        ELSE secrets
    /\ UNCHANGED <<db_keys, credential, client, i, requests, result,
                   lookup_key, lookup_result, lookups>>

\* The fetch loop with a failed fetch issued again.
FetchComplete_retry ==
    /\ pc = "await"
    /\ \E r \in {Ok(v) : v \in Values} \cup {Err(FetchContext, e) : e \in FetchErrors} :
          /\ responses' = Append(responses, r)
          /\ pc' = "loop"
          /\ IF r.tag = "Ok"
             THEN /\ secrets' = insert(secrets, db_keys[i], r.value)
                  /\ i' = i
             ELSE /\ secrets' = secrets
                  /\ i' = i - 1
    /\ UNCHANGED <<db_keys, credential, client, requests, result,
                   lookup_key, lookup_result, lookups>>

\* client.get(key).await completes:
\*   get_secret: .context("Unable to retrieve value")?  /  Ok(response.value.to_string())
\*   Vault::new: secrets.insert(key.clone(), <value>)   /  `?` returns the error
FetchComplete ==
    /\ pc = "await"
    /\ \E r \in {Ok(v) : v \in Values} \cup {Err(FetchContext, e) : e \in FetchErrors} :
          /\ responses' = Append(responses, r)
          /\ IF r.tag = "Ok"
             THEN /\ secrets' = insert(secrets, db_keys[i], r.value)
                  /\ pc' = "loop"
                  /\ UNCHANGED result
             ELSE /\ secrets' = EmptyMap
                  /\ pc' = "done"
                  /\ result' = r
    /\ UNCHANGED <<db_keys, credential, client, i, requests,
                   lookup_key, lookup_result, lookups>>

\* Vault::new refusing an empty map.
ReturnOk_nonempty ==
    /\ pc = "loop"
    /\ i = Len(db_keys)
    /\ result' = IF secrets = EmptyMap
                 THEN Err(<<"No secrets">>, NoSource)
                 ELSE Ok(Vault(secrets))
    /\ secrets' = EmptyMap
    /\ pc' = "done"
    /\ UNCHANGED <<db_keys, credential, client, i, requests, responses,
                   lookup_key, lookup_result, lookups>>

\* keys_iter is exhausted: Ok(Self { secrets })
ReturnOk ==
    /\ pc = "loop"
    /\ i = Len(db_keys)
    /\ result' = Ok(Vault(secrets))
    /\ secrets' = EmptyMap
    /\ pc' = "done"
    /\ UNCHANGED <<db_keys, credential, client, i, requests, responses,
                   lookup_key, lookup_result, lookups>>

\* Dropping the future with what was fetched handed out as a store.
Cancel_partial ==
    /\ pc \in {"start", "await"}
    /\ pc' = "cancelled"
    /\ result' = Ok(Vault(secrets))
    /\ secrets' = EmptyMap
    /\ UNCHANGED <<db_keys, credential, client, i, requests, responses,
                   lookup_key, lookup_result, lookups>>

\* The caller drops the Vault::new future.  A future is dropped where it is
\* suspended: before its first poll, or at client.get(key).await.  Its locals
\* (secrets, client, credential) are dropped with it and nothing is returned.
Cancel ==
    /\ pc \in {"start", "await"}
    /\ pc' = "cancelled"
    /\ secrets' = EmptyMap
    /\ UNCHANGED <<db_keys, credential, client, i, requests, responses, result,
                   lookup_key, lookup_result, lookups>>

\* get_required taking the entry out of the map (HashMap::remove for get).
GetRequired_take(key) ==
    /\ result.tag = "Ok"
    /\ lookup_key' = key
    /\ lookup_result' = get_required(result.value, key)
    /\ lookups' = lookups \cup {<<key, get_required(result.value, key)>>}
    /\ result' = Ok(Vault(remove(result.value.secrets, key)))
    /\ UNCHANGED <<db_keys, pc, credential, client, i, secrets, requests,
                   responses>>

\* A caller holding the Vault calls get_required(&vault, key).
GetRequired(key) ==
    /\ result.tag = "Ok"
    /\ lookup_key' = key
    /\ lookup_result' = get_required(result.value, key)
    /\ lookups' = lookups \cup {<<key, get_required(result.value, key)>>}
    /\ UNCHANGED <<db_keys, pc, credential, client, i, secrets, requests,
                   responses, result>>

Lookup == \E key \in Keys : GetRequired(key)

Next ==
    \/ CreateCredential
    \/ NewClient
    \/ IssueFetch
    \/ FetchComplete
    \/ ReturnOk
    \/ Cancel
    \/ Lookup

Spec == Init /\ [][Next]_vars

----------------------------------------------------------------------------
\* Vocabulary of the properties.

\* The distinct keys of a key list.
Range(seq) == {seq[j] : j \in 1..Len(seq)}

\* Position of the last occurrence of key k in the key list.
LastIndex(k) ==
    CHOOSE j \in 1..Len(db_keys) :
        /\ db_keys[j] = k
        /\ \A h \in (j + 1)..Len(db_keys) : db_keys[h] # k

\* Some completed fetch failed.
FetchFailed == \E j \in 1..Len(responses) : responses[j].tag = "Err"

\* Every key of the list was fetched and every fetch succeeded.
AllResolved ==
    /\ Len(responses) = Len(db_keys)
    /\ \A j \in 1..Len(responses) : responses[j].tag = "Ok"

\* The error is a missing-key error that names key and no other key.
IsMissingKey(e, key) ==
    /\ e.tag = "Err"
    /\ e.message = MissingKeyMessage(key)
    /\ Mentioned(e) = {key}

----------------------------------------------------------------------------
\* C1: for a non-empty key list whose fetches all succeeded, Vault::new
\* never ends in an error or a cancellation, it returns Ok, and get_required
\* on the returned store gives, for every key of the list, the value the
\* vault answered for that key (for its last fetch when it was fetched more
\* than once); a lookup a caller made of such a key produced that value.
C1_LookupReturnsFetchedValue ==
    (Len(db_keys) > 0 /\ AllResolved) =>
        /\ pc \in {"loop", "done"}
        /\ pc = "loop" => (i = Len(db_keys) /\ result = Pending)
        /\ pc = "done" =>
              /\ result.tag = "Ok"
              /\ \A k \in Range(db_keys) :
                    get_required(result.value, k) = Ok(responses[LastIndex(k)].value)
              /\ lookup_key \in Range(db_keys) =>
                    lookup_result = Ok(responses[LastIndex(lookup_key)].value)

\* A two-key list was resolved and a caller looked one of its keys up.
C1_Witness ==
    /\ pc = "done"
    /\ result.tag = "Ok"
    /\ Cardinality(Range(db_keys)) >= 2
    /\ lookup_key \in Range(db_keys)
    /\ lookup_result.tag = "Ok"

\* C2: once a fetch has failed, Vault::new has returned an error and no
\* store; and a store that was returned holds every key of the list, never
\* only some of them.
C2_FailedFetchNoStore ==
    /\ FetchFailed => (pc = "done" /\ result.tag = "Err" /\ lookups = {})
    /\ result.tag = "Ok" => DOMAIN result.value.secrets = Range(db_keys)

\* The second fetch failed after the first had put a secret into the map.
C2_Witness ==
    /\ Len(responses) >= 2
    /\ responses[1].tag = "Ok"
    /\ responses[2].tag = "Err"
    /\ pc = "done"

\* C3: on every returned store, get_required of a key that is not in the
\* key list is a missing-key error naming exactly that key, never a value;
\* a lookup a caller made of such a key produced that error.
C3_AbsentKeyIsMissingKeyError ==
    result.tag = "Ok" =>
        /\ \A k \in Keys \ Range(db_keys) :
              IsMissingKey(get_required(result.value, k), k)
        /\ (lookup_key \in Keys \ Range(db_keys)) =>
              IsMissingKey(lookup_result, lookup_key)

\* A caller looked up a key that was not in a non-empty key list.
C3_Witness ==
    /\ result.tag = "Ok"
    /\ Len(db_keys) > 0
    /\ lookup_key \in Keys \ Range(db_keys)
    /\ lookup_result.tag = "Err"

\* C4: when a fetch failed, the error Vault::new returned names the key
\* whose fetch failed.
C4_FetchErrorNamesKey ==
    (pc = "done" /\ FetchFailed) =>
        /\ result.tag = "Err"
        /\ requests[Len(requests)] \in Mentioned(result)

\* C5 as stated: with an empty key list Vault::new returns a store with an
\* empty mapping on which every lookup is a missing-key error.
C5_EmptyListSucceeds ==
    (db_keys = << >> /\ pc = "done") =>
        /\ result = Ok(Vault(EmptyMap))
        /\ \A k \in Keys : IsMissingKey(get_required(result.value, k), k)

\* C5 amended: with an empty key list, when credential acquisition and
\* client construction have both succeeded, Vault::new returns a store with
\* an empty mapping on which every lookup is a missing-key error.
C5_EmptyListSucceedsAfterSetup ==
    (db_keys = << >> /\ pc = "done" /\ credential = "ok" /\ client = "ok") =>
        /\ result = Ok(Vault(EmptyMap))
        /\ requests = << >>
        /\ \A k \in Keys : IsMissingKey(get_required(result.value, k), k)
        /\ lookup_key # NoKey => IsMissingKey(lookup_result, lookup_key)

\* A store built from the empty list was looked up.
C5_Witness ==
    /\ db_keys = << >>
    /\ pc = "done"
    /\ result.tag = "Ok"
    /\ lookup_key # NoKey

\* C6: a returned store's mapping has the distinct keys of the key list as
\* its keys and no other, and maps each to the value answered by the fetch
\* issued for the key's last occurrence in the list.
C6_OneEntryPerKeyLastWins ==
    result.tag = "Ok" =>
        /\ DOMAIN result.value.secrets = Range(db_keys)
        /\ Cardinality(DOMAIN result.value.secrets) <= Len(db_keys)
        /\ \A j \in 1..Len(db_keys) :
              (\A h \in (j + 1)..Len(db_keys) : db_keys[h] # db_keys[j]) =>
                  result.value.secrets[db_keys[j]] = responses[j].value

\* A key occurred twice and its two fetches answered different values.
C6_Witness ==
    /\ result.tag = "Ok"
    /\ \E j \in 1..Len(db_keys) : \E h \in (j + 1)..Len(db_keys) :
          /\ db_keys[j] = db_keys[h]
          /\ responses[j].value # responses[h].value

\* Every key was looked up with one result only.
LookupsAgree(ls) == \A p \in ls : \A q \in ls : p[1] = q[1] => p[2] = q[2]

\* C7: once Vault::new has returned a store, no step changes it, and every
\* get_required call on it gives, for the same key, the same result.
C7_StoreImmutable ==
    [][result.tag = "Ok" => (result' = result /\ LookupsAgree(lookups'))]_vars

\* A present and an absent key have both been looked up.
C7_Witness ==
    /\ result.tag = "Ok"
    /\ \E p \in lookups : p[2].tag = "Ok"
    /\ \E p \in lookups : p[2].tag = "Err"

\* C8: a failed credential acquisition ends Vault::new with the credential
\* error, no client built and no fetch issued; a failed client construction
\* ends it with the client error and no fetch issued; and the error returned
\* tells the stage: it has the credential context exactly when the
\* credential failed, the client context exactly when the client failed, the
\* fetch context exactly when a fetch failed.
C8_ErrorTellsStage ==
    /\ credential = "failed" =>
          (pc = "done" /\ client = "none" /\ requests = << >>
             /\ result = Err(CredentialContext, "credential"))
    /\ client = "failed" =>
          (pc = "done" /\ credential = "ok" /\ requests = << >>
             /\ result = Err(ClientContext, "client"))
    /\ result.tag = "Err" =>
          /\ result.message = CredentialContext <=> credential = "failed"
          /\ result.message = ClientContext <=> client = "failed"
          /\ result.message = FetchContext <=> FetchFailed

\* The client could not be built for a non-empty key list.
C8_Witness ==
    /\ client = "failed"
    /\ Len(db_keys) > 0
    /\ result.tag = "Err"

\* C9: after a cancellation no store exists and what was fetched is
\* dropped, as after a failed construction; a store exists only when
\* Vault::new ran to its end, and then it holds all the keys of the list.
C9_CancelLeavesNoStore ==
    /\ pc = "cancelled" =>
          (result = Pending /\ secrets = EmptyMap /\ lookups = {})
    /\ (pc = "done" /\ result.tag = "Err") =>
          (secrets = EmptyMap /\ lookups = {})
    /\ result.tag = "Ok" =>
          (pc = "done" /\ AllResolved
             /\ DOMAIN result.value.secrets = Range(db_keys))

\* The construction was cancelled during its second fetch.
C9_Witness ==
    /\ pc = "cancelled"
    /\ Len(responses) = 1
    /\ Len(requests) = 2

\* C10: the requests issued are a prefix of the key list, in list order,
\* one per element; a request is issued only when all earlier ones have
\* completed; only the last completed fetch can be a failed one, and no
\* request follows it; the whole list has been requested when Vault::new
\* returns a store.
C10_FetchesSequentialPrefix ==
    /\ Len(requests) <= Len(db_keys)
    /\ requests = SubSeq(db_keys, 1, Len(requests))
    /\ Len(requests) = i
    /\ pc = "await" => Len(responses) = Len(requests) - 1
    /\ pc \in {"start", "client", "loop", "done"} => Len(responses) = Len(requests)
    /\ pc = "cancelled" => Len(requests) - Len(responses) \in {0, 1}
    /\ \A j \in 1..(Len(responses) - 1) : responses[j].tag = "Ok"
    /\ FetchFailed => (pc = "done" /\ Len(requests) = Len(responses))
    /\ result.tag = "Ok" => requests = db_keys

\* The second of three keys, a repetition of the first, failed to be fetched.
C10_Witness ==
    /\ Len(db_keys) = 3
    /\ db_keys[1] = db_keys[2]
    /\ Len(requests) = 2
    /\ FetchFailed
    /\ pc = "done"

====
